---- MODULE Spec2Model ----
(***************************************************************************)
(* Model of mongo_service.py: a FastAPI service over the MongoDB           *)
(* collection ngrok.url.                                                   *)
(*                                                                         *)
(* The collection lives in the store and is shared by every server         *)
(* process running the application.  Inside one process the handlers are   *)
(* `async def` functions without any await, so the event loop runs each    *)
(* handler to completion before the next one; handlers of different        *)
(* processes interleave at the granularity of one store call               *)
(* (find_one, update_one, count_documents, ping).                          *)
(***************************************************************************)
EXTENDS Integers, Sequences, FiniteSets, TLC

\* largest number of documents in the collection
MaxDocs == 2

\* the server processes running the application against the one collection
Procs == {1, 2}

\* --------------------------------------------------------- program values
DATABASE_NAME == "ngrok"
COLLECTION_NAME == "url"

\* Python None / JSON null
Null == [null |-> TRUE]

\* uri strings sent as request bodies and found in stored records
Uris == {"", "A", "B"}

\* request bodies of PUT /api/url: a JSON object with a string field uri,
\* or one without that field, which UrlUpdate rejects
Bodies == {[uri |-> u] : u \in Uris} \cup {[url |-> "A"]}

\* str(ObjectId): the identifier's string form
IdStr(id) == <<"65f0000000000000000000a1", "65f0000000000000000000a2",
               "65f0000000000000000000a3", "65f0000000000000000000a4">>[id]

\* dict.get(key, default)
Get(record, key, default) ==
    IF key \in DOMAIN record THEN record[key] ELSE default

\* ----------------------------------------------------------- the store
\* A stored document: _id, uri, and a field the service does not interpret.
Doc(id, u) == ("_id" :> id) @@ ("uri" :> u) @@ ("port" :> 4040)

\* A stored document that has no uri field.
DocNoUri(id) == ("_id" :> id) @@ ("port" :> 4040)

\* collections the service may be started against, in natural order
InitDocs ==
    { [i \in 1..n |-> IF i = 1 THEN first ELSE Doc(i, "other")] :
        n \in 0..MaxDocs, first \in {Doc(1, u) : u \in Uris} \cup {DocNoUri(1)} }

\* collection.find_one(): first document in natural order, or None
find_one(coll) == IF Len(coll) = 0 THEN Null ELSE coll[1]

\* collection.find_one({"_id": id})
find_one_by_id(coll, id) ==
    IF \E i \in DOMAIN coll : coll[i]["_id"] = id
    THEN coll[CHOOSE i \in DOMAIN coll :
                /\ coll[i]["_id"] = id
                /\ \A j \in DOMAIN coll : coll[j]["_id"] = id => i <= j]
    ELSE Null

\* {"$set": {"uri": v}} applied to one document
SetUri(doc, v) == [k \in DOMAIN doc \cup {"uri"} |->
                     IF k = "uri" THEN v ELSE doc[k]]

\* mutant of update_one: the filter is dropped, every document is updated
update_many(coll, id, v) == [i \in DOMAIN coll |-> SetUri(coll[i], v)]

\* mutant of update_one: "$set" is dropped, the document is replaced
replace_one(coll, id, v) ==
    [i \in DOMAIN coll |->
        IF coll[i]["_id"] = id THEN ("_id" :> id) @@ ("uri" :> v)
                               ELSE coll[i]]

\* collection.update_one({"_id": id}, {"$set": {"uri": v}}): the collection
\* afterwards
update_one(coll, id, v) ==
    [i \in DOMAIN coll |->
        IF /\ coll[i]["_id"] = id
           /\ \A j \in DOMAIN coll : coll[j]["_id"] = id => i <= j
        THEN SetUri(coll[i], v) ELSE coll[i]]

\* mutant of modified_count: result.matched_count is read instead
matched_count(coll, id, v) ==
    IF \E i \in DOMAIN coll : coll[i]["_id"] = id THEN 1 ELSE 0

\* result.modified_count of that update
modified_count(coll, id, v) ==
    IF update_one(coll, id, v) = coll THEN 0 ELSE 1

\* mutant of count_documents: only documents with a uri field are counted
count_with_uri(coll) ==
    Cardinality({i \in DOMAIN coll : "uri" \in DOMAIN coll[i]})

\* collection.count_documents({})
count_documents(coll) == Len(coll)

\* ------------------------------------------------------------ responses
\* UrlResponse(success, data, message) returned from a handler: HTTP 200
UrlResponse(success, data, message) ==
    [status |-> 200,
     body |-> [success |-> success, data |-> data, message |-> message]]

\* raise HTTPException(status_code, detail)
HTTPException(status_code, detail) ==
    [status |-> status_code, body |-> [detail |-> detail]]

\* str(e) of the exception caught by a handler's `except Exception`
StrExc(e) ==
    IF e = "HTTPException" THEN "503: MongoDB no conectado"
                           ELSE "ServerSelectionTimeoutError"

\* f"La colección tiene {count} registro(s)"
CountMessage(count) ==
    <<"La coleccion tiene 0 registro(s)", "La coleccion tiene 1 registro(s)",
      "La coleccion tiene 2 registro(s)", "La coleccion tiene 3 registro(s)",
      "La coleccion tiene 4 registro(s)">>[count + 1]

NoResponse == [status |-> 0, body |-> Null]

\* ---------------------------------------------------------------- state
VARIABLES
    docs,             \* the collection ngrok.url, in natural order
    storeUp,          \* whether the store answers commands
    phase,            \* per process: "boot", "running", "stopped"
    mongo_client,     \* per process: global mongo_client ("None" or handle)
    database,         \* per process: global database
    collection,       \* per process: global collection
    client_open,      \* per process: the MongoClient has not been closed
    connect_result,   \* per process: what connect_to_mongodb() returned
    pc,               \* per process: position of the handler being run
    op,               \* per process: the endpoint being handled
    url_data,         \* per process: request body of PUT /api/url
    existing_record,  \* per process: document read by PUT's find_one()
    result,           \* per process: modified_count of PUT's update_one()
                      \*   (locals are gone once the handler returned)
    resp,             \* per process: the HTTP response of the handler
    storeErr,         \* per process: a store call of the handler raised
    overwritten,      \* per process: the document as stored right before
                      \*   PUT's update_one() was applied, while PUT runs
    lastPut           \* the latest update_one() the store executed

conn == <<phase, mongo_client, database, collection, client_open,
          connect_result>>
req == <<pc, op, url_data, existing_record, result, resp, storeErr,
         overwritten>>
vars == <<docs, storeUp, conn, req, lastPut>>

Init ==
    /\ docs \in InitDocs
    /\ storeUp \in BOOLEAN
    /\ phase = [w \in Procs |-> "boot"]
    /\ mongo_client = [w \in Procs |-> "None"]
    /\ database = [w \in Procs |-> "None"]
    /\ collection = [w \in Procs |-> "None"]
    /\ client_open = [w \in Procs |-> FALSE]
    /\ connect_result = [w \in Procs |-> "none"]
    /\ pc = [w \in Procs |-> "idle"]
    /\ op = [w \in Procs |-> "none"]
    /\ url_data = [w \in Procs |-> Null]
    /\ existing_record = [w \in Procs |-> Null]
    /\ result = [w \in Procs |-> -1]
    /\ resp = [w \in Procs |-> NoResponse]
    /\ storeErr = [w \in Procs |-> FALSE]
    /\ overwritten = [w \in Procs |-> Null]
    /\ lastPut = Null

\* the event loop of process w is free to run a handler
Ready(w) == phase[w] = "running" /\ pc[w] \in {"idle", "done"}

\* the handler of process w moves on: its locals (dropped when it returns
\* or raises), its position and, once it returns or raises, its response
Handler(w, endpoint, body, record, before, modified, err, response, next) ==
    /\ op' = [op EXCEPT ![w] = endpoint]
    /\ url_data' = [url_data EXCEPT ![w] = body]
    /\ existing_record' = [existing_record EXCEPT ![w] = record]
    /\ overwritten' = [overwritten EXCEPT ![w] = before]
    /\ result' = [result EXCEPT ![w] = modified]
    /\ storeErr' = [storeErr EXCEPT ![w] = err]
    /\ resp' = [resp EXCEPT ![w] = response]
    /\ pc' = [pc EXCEPT ![w] = next]

\* ------------------------------------------------------------- lifecycle
\* connect_to_mongodb(): the globals afterwards and the value returned.
\* ctorOk: MongoClient(MONGODB_CONNECTION_STRING) did not raise;
\* up: the ping command succeeded.
connect_to_mongodb(ctorOk, up) ==
    IF ~ctorOk
    THEN [mongo_client |-> "None", database |-> "None",
          collection |-> "None", returned |-> "failed"]
    ELSE [mongo_client |-> "MongoClient", database |-> DATABASE_NAME,
          collection |-> COLLECTION_NAME,
          returned |-> IF up THEN "ok" ELSE "failed"]

startup_event(w) ==
    /\ phase[w] = "boot"
    /\ \E ctorOk \in BOOLEAN :
         LET c == connect_to_mongodb(ctorOk, storeUp) IN
           /\ mongo_client' = [mongo_client EXCEPT ![w] = c.mongo_client]
           /\ database' = [database EXCEPT ![w] = c.database]
           /\ collection' = [collection EXCEPT ![w] = c.collection]
           /\ client_open' = [client_open EXCEPT ![w] = ctorOk]
           /\ connect_result' = [connect_result EXCEPT ![w] = c.returned]
    /\ phase' = [phase EXCEPT ![w] = "running"]
    /\ UNCHANGED <<docs, storeUp, req, lastPut>>

\* shutdown_event(), after which the process and its handlers are gone
shutdown_event(w) ==
    /\ Ready(w)
    /\ phase' = [phase EXCEPT ![w] = "stopped"]
    /\ client_open' = [client_open EXCEPT ![w] =
                         IF mongo_client[w] # "None" THEN FALSE ELSE @]
    /\ Handler(w, "none", Null, Null, Null, -1, FALSE, NoResponse, "idle")
    /\ UNCHANGED <<docs, storeUp, mongo_client, database, collection,
                   connect_result, lastPut>>

\* the store becomes unreachable / reachable again
StoreFails ==
    /\ storeUp
    /\ storeUp' = FALSE
    /\ UNCHANGED <<docs, conn, req, lastPut>>

StoreRecovers ==
    /\ ~storeUp
    /\ storeUp' = TRUE
    /\ UNCHANGED <<docs, conn, req, lastPut>>

\* --------------------------------------------------------------- handlers
\* mutant of InternalError: the failure is returned as an envelope
InternalErrorEnvelope(e) ==
    [status |-> 500,
     body |-> [success |-> FALSE, data |-> Null,
               message |-> "Error interno: " \o StrExc(e)]]

\* what the `except Exception` clause of get_url_record, update_url_record
\* and get_url_count raises for the caught exception e
InternalError(e) == HTTPException(500, "Error interno: " \o StrExc(e))

\* GET /
root(w) ==
    /\ Ready(w)
    /\ Handler(w, "root", Null, Null, Null, -1, FALSE,
               UrlResponse(TRUE,
                           [service |-> "MongoDB URL Service",
                            database |-> DATABASE_NAME,
                            collection |-> COLLECTION_NAME,
                            endpoints |-> [get_url |-> "/api/url",
                                           update_url |-> "PUT /api/url",
                                           health |-> "/api/health"]],
                           "Servicio funcionando correctamente"),
               "done")
    /\ UNCHANGED <<docs, storeUp, conn, lastPut>>

\* response of GET /api/health given the client handle and whether the
\* ping is answered
health_response(client, up) ==
    IF client = "None"
    THEN HTTPException(503, "Error de conexion: " \o StrExc("HTTPException"))
    ELSE IF ~up
    THEN HTTPException(503, "Error de conexion: " \o StrExc("PyMongoError"))
    ELSE UrlResponse(TRUE, [status |-> "healthy", database |-> DATABASE_NAME],
                     "Conexion a MongoDB OK")

health_check(w) ==
    /\ Ready(w)
    /\ Handler(w, "health", Null, Null, Null, -1,
               mongo_client[w] # "None" /\ ~storeUp,
               health_response(mongo_client[w], storeUp), "done")
    /\ UNCHANGED <<docs, storeUp, conn, lastPut>>

\* mutant of record_response: the field is looked up under the name 'url'
record_response_typo(record) ==
    IF record = Null
    THEN UrlResponse(FALSE, Null,
                     "No se encontro ningun registro en la coleccion")
    ELSE UrlResponse(TRUE, [uri |-> Get(record, "url", "No encontrado")],
                     "Valor de URI obtenido exitosamente")

\* mutant of record_response: a missing record is raised as HTTP 404
record_response_404(record) ==
    IF record = Null
    THEN HTTPException(404, "No se encontro ningun registro en la coleccion")
    ELSE UrlResponse(TRUE, [uri |-> Get(record, "uri", "No encontrado")],
                     "Valor de URI obtenido exitosamente")

\* response of GET /api/url for the record find_one() returned
record_response(record) ==
    IF record = Null
    THEN UrlResponse(FALSE, Null,
                     "No se encontro ningun registro en la coleccion")
    ELSE UrlResponse(TRUE, [uri |-> Get(record, "uri", "No encontrado")],
                     "Valor de URI obtenido exitosamente")

\* response of GET /api/url given the collection handle, whether the store
\* answers and the collection's content
get_url_response(handle, up, coll) ==
    IF handle = "None" THEN InternalError("HTTPException")
    ELSE IF ~up THEN InternalError("PyMongoError")
    ELSE record_response(find_one(coll))

get_url_record(w) ==
    /\ Ready(w)
    /\ Handler(w, "get", Null, Null, Null, -1,
               collection[w] # "None" /\ ~storeUp,
               get_url_response(collection[w], storeUp, docs), "done")
    /\ UNCHANGED <<docs, storeUp, conn, lastPut>>

\* response of GET /api/url/count
get_url_count_response(handle, up, coll) ==
    IF handle = "None" THEN InternalError("HTTPException")
    ELSE IF ~up THEN InternalError("PyMongoError")
    ELSE LET count == count_documents(coll) IN
           UrlResponse(TRUE, [count |-> count], CountMessage(count))

get_url_count(w) ==
    /\ Ready(w)
    /\ Handler(w, "count", Null, Null, Null, -1,
               collection[w] # "None" /\ ~storeUp,
               get_url_count_response(collection[w], storeUp, docs), "done")
    /\ UNCHANGED <<docs, storeUp, conn, lastPut>>

\* UrlUpdate: the body has a string field uri
UrlUpdate(body) == "uri" \in DOMAIN body

\* mutant of update_response: previous_uri is taken from the new value
update_response_new(record, body, modified) ==
    IF modified > 0
    THEN UrlResponse(TRUE,
                     [uri |-> body.uri,
                      previous_uri |-> body.uri,
                      _id |-> IdStr(record["_id"])],
                     "URI actualizada exitosamente")
    ELSE UrlResponse(FALSE, Null, "No se pudo actualizar el registro")

\* response of PUT /api/url once update_one() has reported modified
update_response(record, body, modified) ==
    IF modified > 0
    THEN UrlResponse(TRUE,
                     [uri |-> body.uri,
                      previous_uri |-> Get(record, "uri", "N/A"),
                      _id |-> IdStr(record["_id"])],
                     "URI actualizada exitosamente")
    ELSE UrlResponse(FALSE, Null, "No se pudo actualizar el registro")

\* PUT /api/url, up to and including existing_record = collection.find_one()
update_url_record(w) ==
    /\ Ready(w)
    /\ \E body \in Bodies :
         IF ~UrlUpdate(body)
         THEN Handler(w, "put", body, Null, Null, -1, FALSE,
                      HTTPException(422, "Field required"), "done")
         ELSE IF collection[w] = "None"
         THEN Handler(w, "put", body, Null, Null, -1, FALSE,
                      InternalError("HTTPException"), "done")
         ELSE IF ~storeUp
         THEN Handler(w, "put", body, Null, Null, -1, TRUE,
                      InternalError("PyMongoError"), "done")
         ELSE IF find_one(docs) = Null
         THEN Handler(w, "put", body, Null, Null, -1, FALSE,
                      UrlResponse(FALSE, Null,
                          "No se encontro ningun registro para actualizar"),
                      "done")
         ELSE Handler(w, "put", body, find_one(docs), Null, -1, FALSE,
                      NoResponse, "update")
    /\ UNCHANGED <<docs, storeUp, conn, lastPut>>

\* PUT /api/url: result = collection.update_one(...), and the response when
\* nothing was modified
update_url_record_update(w) ==
    /\ phase[w] = "running"
    /\ pc[w] = "update"
    /\ IF ~storeUp
       THEN /\ Handler(w, "put", url_data[w], Null, Null, -1, TRUE,
                       InternalError("PyMongoError"), "done")
            /\ UNCHANGED <<docs, lastPut>>
       ELSE LET id == existing_record[w]["_id"]
                v == url_data[w].uri
                modified == modified_count(docs, id, v)
            IN /\ docs' = update_one(docs, id, v)
               /\ lastPut' = [uri |-> v, modified |-> modified]
               /\ IF modified > 0
                  THEN Handler(w, "put", url_data[w], existing_record[w],
                               find_one_by_id(docs, id), modified, FALSE,
                               NoResponse, "reread")
                  ELSE Handler(w, "put", url_data[w], Null, Null, -1, FALSE,
                               update_response(existing_record[w],
                                               url_data[w], modified),
                               "done")
    /\ UNCHANGED <<storeUp, conn>>

\* PUT /api/url: updated_record = collection.find_one({"_id": ...}), and
\* the response
update_url_record_reread(w) ==
    /\ phase[w] = "running"
    /\ pc[w] = "reread"
    /\ IF ~storeUp
       THEN Handler(w, "put", url_data[w], Null, Null, -1, TRUE,
                    InternalError("PyMongoError"), "done")
       ELSE Handler(w, "put", url_data[w], Null, Null, -1, FALSE,
                    update_response(existing_record[w], url_data[w],
                                    result[w]),
                    "done")
    /\ UNCHANGED <<docs, storeUp, conn, lastPut>>

\* ------------------------------------------------------------ behaviours
Next ==
    \/ \E w \in Procs : startup_event(w)
    \/ \E w \in Procs : shutdown_event(w)
    \/ \E w \in Procs : root(w)
    \/ \E w \in Procs : health_check(w)
    \/ \E w \in Procs : get_url_record(w)
    \/ \E w \in Procs : update_url_record(w)
    \/ \E w \in Procs : update_url_record_update(w)
    \/ \E w \in Procs : update_url_record_reread(w)
    \/ \E w \in Procs : get_url_count(w)
    \/ StoreFails
    \/ StoreRecovers

Spec == Init /\ [][Next]_vars

TypeOK ==
    /\ Len(docs) \in 0..MaxDocs
    /\ \A w \in Procs : pc[w] \in {"idle", "update", "reread", "done"}

\* ---------------------------------------------------------------- claims
\* process w holds the response of the handler it ran last
Done(w) == phase[w] = "running" /\ pc[w] = "done"

\* process w holds the handles connect_to_mongodb() sets
HasHandles(w) == mongo_client[w] # "None" /\ collection[w] # "None"

\* an expected negative outcome: HTTP 200, success=false, data=null
NegativeOutcome(r) ==
    /\ r.status = 200
    /\ r.body.success = FALSE
    /\ r.body.data = Null

\* process w holds the success=true response of a PUT
PutSucceeded(w) ==
    /\ Done(w)
    /\ op[w] = "put"
    /\ resp[w].status = 200
    /\ resp[w].body.success

\* C1: whenever no connection has been established (client and collection
\* handles absent), GET /api/health, GET /api/url and PUT /api/url (with a
\* well-formed body) each answer HTTP 503.
C1_NotConnectedAnswers503 ==
    \A w \in Procs :
        ( /\ Done(w)
          /\ mongo_client[w] = "None"
          /\ collection[w] = "None"
          /\ op[w] \in {"health", "get", "put"}
          /\ op[w] = "put" => UrlUpdate(url_data[w]) )
        => resp[w].status = 503

\* C2: after connect_to_mongodb() returned failure at startup, every later
\* request that needs the store (health, GET, PUT, count) is answered with
\* HTTP 503.
C2_FailedConnectAnswers503 ==
    \A w \in Procs :
        ( /\ Done(w)
          /\ connect_result[w] = "failed"
          /\ op[w] \in {"health", "get", "put", "count"}
          /\ op[w] = "put" => UrlUpdate(url_data[w]) )
        => resp[w].status = 503

\* C3: no step of the service inserts or deletes a document or changes an
\* identifier; the only step that changes the store is a PUT's update_one,
\* and it changes nothing but the uri field of the document that PUT's own
\* find_one() returned.
C3_OnlyUriOfFoundRecordChanges ==
    [][ /\ DOMAIN docs' = DOMAIN docs
        /\ \A i \in DOMAIN docs : docs'[i]["_id"] = docs[i]["_id"]
        /\ docs' # docs =>
             \E w \in Procs :
                /\ update_url_record_update(w)
                /\ \A i \in DOMAIN docs :
                     IF docs[i]["_id"] = existing_record[w]["_id"]
                     THEN /\ DOMAIN docs'[i] = DOMAIN docs[i] \cup {"uri"}
                          /\ docs'[i]["uri"] = url_data[w].uri
                          /\ \A k \in DOMAIN docs[i] \ {"uri"} :
                                docs'[i][k] = docs[i][k]
                     ELSE docs'[i] = docs[i]
      ]_vars

\* C3 witness: a PUT has modified the first of two documents and the second
\* one is as it was.
C3_Witness ==
    /\ Len(docs) = 2
    /\ lastPut # Null
    /\ lastPut.modified = 1
    /\ docs[1]["uri"] = lastPut.uri
    /\ docs[2] = Doc(2, "other")

\* C4: a PUT whose update is applied to the first record as its own find_one()
\* read it (no write in between), with a uri different from the stored one,
\* sets the stored uri of that record to the new value and leaves the rest
\* alone; and when no store call fails it answers success=true with data
\* exactly {uri: new, previous_uri: old or "N/A", _id: str(identifier)}.
C4_SequentialPutSucceeds ==
    [][ \A w \in Procs :
          /\ ( /\ update_url_record_update(w)
               /\ storeUp
               /\ existing_record[w] = find_one(docs)
               /\ \/ "uri" \notin DOMAIN existing_record[w]
                  \/ existing_record[w]["uri"] # url_data[w].uri )
             => /\ result'[w] = 1
                /\ pc'[w] = "reread"
                /\ DOMAIN docs' = DOMAIN docs
                /\ docs'[1] = [k \in DOMAIN docs[1] \cup {"uri"} |->
                                 IF k = "uri" THEN url_data[w].uri
                                              ELSE docs[1][k]]
                /\ \A i \in DOMAIN docs : i # 1 => docs'[i] = docs[i]
          /\ ( update_url_record_reread(w) /\ storeUp )
             => resp'[w] =
                  [status |-> 200,
                   body |-> [success |-> TRUE,
                             data |-> [uri |-> url_data[w].uri,
                                       previous_uri |->
                                         IF "uri" \in DOMAIN existing_record[w]
                                         THEN existing_record[w]["uri"]
                                         ELSE "N/A",
                                       _id |->
                                         IdStr(existing_record[w]["_id"])],
                             message |-> "URI actualizada exitosamente"]]
      ]_vars

\* C4 witness: with no other process started, a PUT of "B" over a first
\* record holding "A" has answered success and the store holds "B".
C4_Witness ==
    \E w \in Procs :
        /\ PutSucceeded(w)
        /\ \A x \in Procs \ {w} : phase[x] = "boot"
        /\ resp[w].body.data.previous_uri = "A"
        /\ resp[w].body.data.uri = "B"
        /\ docs[1]["uri"] = "B"

\* C5: a PUT whose uri equals the one the first record holds when the update
\* is applied gets zero modified documents, leaves the store unchanged and
\* answers HTTP 200 with success=false and data=null; in particular a PUT
\* of the value the latest update wrote answers success=false.
C5_SameValueIsReportedAsFailure ==
    [][ \A w \in Procs :
          ( /\ update_url_record_update(w)
            /\ storeUp
            /\ \/ /\ "uri" \in DOMAIN find_one(docs)
                  /\ find_one(docs)["uri"] = url_data[w].uri
               \/ /\ lastPut # Null
                  /\ lastPut.uri = url_data[w].uri )
          => /\ modified_count(docs, existing_record[w]["_id"],
                               url_data[w].uri) = 0
             /\ docs' = docs
             /\ pc'[w] = "done"
             /\ resp'[w] =
                  [status |-> 200,
                   body |-> [success |-> FALSE, data |-> Null,
                             message |-> "No se pudo actualizar el registro"]]
      ]_vars

\* C5 witness: one PUT of a value answered success=true and the next update
\* with the same value modified nothing and answered success=false.
C5_Witness ==
    \E w, x \in Procs :
        /\ PutSucceeded(w)
        /\ Done(x)
        /\ op[x] = "put"
        /\ NegativeOutcome(resp[x])
        /\ resp[x].body.message = "No se pudo actualizar el registro"
        /\ url_data[x] = url_data[w]
        /\ lastPut = [uri |-> url_data[x].uri, modified |-> 0]

\* C6: a GET /api/url served by a connected process while the store answers,
\* after the store applied a PUT's update with value V and no later update,
\* returns success=true with data={uri: V}; V may be the empty string, the
\* update may have modified nothing, the collection may hold several
\* documents.
C6_PutThenGetRoundTrip ==
    [][ \A w \in Procs :
          ( /\ get_url_record(w)
            /\ HasHandles(w)
            /\ storeUp
            /\ lastPut # Null )
          => resp'[w] =
               [status |-> 200,
                body |-> [success |-> TRUE, data |-> [uri |-> lastPut.uri],
                          message |-> "Valor de URI obtenido exitosamente"]]
      ]_vars

\* C6 witness: in a collection of two documents the latest PUT wrote the
\* empty string the record already held, and a GET has returned it.
C6_Witness ==
    \E w \in Procs :
        /\ Done(w)
        /\ op[w] = "get"
        /\ Len(docs) = 2
        /\ lastPut = [uri |-> "", modified |-> 0]
        /\ resp[w].status = 200
        /\ resp[w].body.success
        /\ resp[w].body.data = [uri |-> ""]

\* C7: with the handles present and the store answering, GET /api/url on an
\* empty collection, PUT /api/url on an empty collection and a PUT whose
\* update reports zero modified documents each answer HTTP 200 with
\* success=false and data=null, and an empty collection stays empty.
C7_NegativeOutcomesAre200 ==
    [][ \A w \in Procs :
          /\ ( /\ get_url_record(w)
               /\ HasHandles(w) /\ storeUp /\ Len(docs) = 0 )
             => NegativeOutcome(resp'[w]) /\ Len(docs') = 0
          /\ ( /\ update_url_record(w)
               /\ UrlUpdate(url_data'[w])
               /\ HasHandles(w) /\ storeUp /\ Len(docs) = 0 )
             => NegativeOutcome(resp'[w]) /\ Len(docs') = 0
          /\ ( /\ update_url_record_update(w)
               /\ storeUp
               /\ modified_count(docs, existing_record[w]["_id"],
                                 url_data[w].uri) = 0 )
             => NegativeOutcome(resp'[w])
      ]_vars

\* C7 witness: a PUT against the empty collection has answered HTTP 200 with
\* success=false.
C7_Witness ==
    \E w \in Procs :
        /\ Done(w)
        /\ op[w] = "put"
        /\ Len(docs) = 0
        /\ NegativeOutcome(resp[w])

\* C8 (as claimed): every response, of every endpoint and outcome, carries a
\* boolean success field and a message field.
C8_EveryResponseIsEnvelope ==
    \A w \in Procs :
        Done(w) =>
            /\ {"success", "message"} \subseteq DOMAIN resp[w].body
            /\ resp[w].body.success \in BOOLEAN

\* C8 (amended): every HTTP 200 response is the envelope {success, data,
\* message} with a boolean success; every other response has status 422, 500
\* or 503 and a body holding only a detail field.
C8_EnvelopeOn200DetailOnError ==
    \A w \in Procs :
        Done(w) =>
            IF resp[w].status = 200
            THEN /\ DOMAIN resp[w].body = {"success", "data", "message"}
                 /\ resp[w].body.success \in BOOLEAN
            ELSE /\ resp[w].status \in {422, 500, 503}
                 /\ DOMAIN resp[w].body = {"detail"}

\* C8 witness: a store failure during GET /api/url was answered with HTTP
\* 500 and a detail-only body.
C8_Witness ==
    \E w \in Procs :
        /\ Done(w)
        /\ op[w] = "get"
        /\ storeErr[w]
        /\ resp[w].status = 500
        /\ DOMAIN resp[w].body = {"detail"}

\* C9: GET /api/url/count served by a connected process while the store
\* answers returns success=true with data.count equal to the number of
\* documents, and leaves the collection unchanged.
C9_CountIsNumberOfDocuments ==
    [][ \A w \in Procs :
          ( get_url_count(w) /\ HasHandles(w) /\ storeUp )
          => /\ resp'[w].status = 200
             /\ resp'[w].body.success = TRUE
             /\ resp'[w].body.data = [count |-> Len(docs)]
             /\ docs' = docs
      ]_vars

\* C9 witness: the count of a collection of two documents was returned as 2.
C9_Witness ==
    \E w \in Procs :
        /\ Done(w)
        /\ op[w] = "count"
        /\ resp[w].status = 200
        /\ resp[w].body.data = [count |-> 2]
        /\ Len(docs) = 2

\* C10 (as claimed): every PUT that answers success=true reports as
\* previous_uri the value stored immediately before its own write, and so a
\* previous_uri different from the uri it wrote.
C10_PreviousIsValueOverwritten ==
    [][ \A w \in Procs :
          ( /\ update_url_record_reread(w)
            /\ resp'[w].status = 200
            /\ resp'[w].body.success )
          => /\ resp'[w].body.data.previous_uri =
                  Get(overwritten[w], "uri", "N/A")
             /\ resp'[w].body.data.previous_uri # resp'[w].body.data.uri
      ]_vars

\* C10 (amended): every PUT that answers success=true reports as
\* previous_uri the value its own find_one() read ("N/A" without one), and
\* the value stored immediately before its write differs from the uri it
\* wrote; the value read need not be the value overwritten.
C10_PreviousIsValueRead ==
    [][ \A w \in Procs :
          ( /\ \/ update_url_record_update(w)
               \/ update_url_record_reread(w)
            /\ resp'[w].status = 200
            /\ resp'[w].body.success )
          => /\ resp'[w].body.data.previous_uri =
                  Get(existing_record[w], "uri", "N/A")
             /\ resp'[w].body.data.uri = url_data[w].uri
             /\ \/ "uri" \notin DOMAIN overwritten[w]
                \/ overwritten[w]["uri"] # url_data[w].uri
      ]_vars

\* C10 witness: another process wrote between a PUT's read and its write,
\* and the PUT answered success=true with previous_uri equal to the uri it
\* wrote.
C10_Witness ==
    \E w \in Procs :
        /\ PutSucceeded(w)
        /\ resp[w].body.data.previous_uri = resp[w].body.data.uri

====
